---- MODULE Spec2Model ----
(***************************************************************************)
(* Model of dfu.py, a host-side client for the USB DFU 1.1 class protocol. *)
(* One run of main() is a sequential state machine: pc is the position in  *)
(* main and in the functions it calls, the other variables are the Python  *)
(* locals that are live across USB calls.  The USB transport, the bus, the *)
(* device and the file system are the environment: every control transfer  *)
(* either raises usb.core.USBError or returns, and a GETSTATUS returns any  *)
(* (bStatus, bwPollTimeout, bState) triple.  h holds history only (what has *)
(* been issued so far); no action reads it to decide what the code does.   *)
(***************************************************************************)
EXTENDS Integers, Sequences, FiniteSets, TLC

(* ------------------------------ bounds --------------------------------- *)
\* longest firmware image / longest upload the model enumerates
MaxLen == 3
\* most devices attached to the bus at one discovery
MaxBus == 2
\* of the random file that -G writes, the model keeps this many bytes
MaxRandomLen == 1
\* no transfer loop is followed beyond this transaction number; a loop with
\* a chunk size >= 1 ends before it
MaxTransaction == MaxLen + 1

(* ------------------------ constants of dfu.py -------------------------- *)
_DFU_STATE_APP_IDLE == 0
_DFU_STATE_APP_DETACH == 1
_DFU_STATE_DFU_IDLE == 2
_DFU_STATE_DFU_DOWNLOAD_IDLE == 5
_DFU_STATE_DFU_UPLOAD_IDLE == 9
_DFU_STATE_DFU_ERROR == 10
_DFU_STATUS_OK == 0
_DFU_STATUS_ERR_WRITE == 3
_DFU_DESCRIPTOR_LEN == 9
_DFU_DESC_FUNCTIONAL == 33
CMD_NONE == 0
CMD_VERSION == 1
CMD_LIST == 2
CMD_DETACH == 3
CMD_UPLOAD == 4
CMD_DOWNLOAD == 5
CMD_DOWNLOAD_RANDOM_BIN == 6
_DFU_PROTOCOL_RT == 1
_DFU_PROTOCOL_DFU == 2
_DFU_CAN_DOWNLOAD == 1
_DFU_CAN_UPLOAD == 2
_DFU_WILL_DETACH == 8
\* bInterfaceClass 0xFE / bInterfaceSubClass 1 of a DFU interface
DFU_CLASS == 254
DFU_SUBCLASS == 1
_DETACH_DELAY_S == 5
\* default of -G / --generate-random-bin-file-download
RANDOM_BIN_FILE_SIZE_DEFAULT == 4096
\* dfu_device == None, vid/pid == None
None == 0

(* ------------------------------ helpers -------------------------------- *)
Min(a, b) == IF a < b THEN a ELSE b

\* x & mask for a one-bit mask (mask a power of two)
BitAnd(x, mask) == IF (x \div mask) % 2 = 1 THEN mask ELSE 0

\* Python slice s[lo : hi] with 0-based lo, exclusive hi, clipped to len(s)
Slice(s, lo, hi) == SubSeq(s, lo + 1, Min(hi, Len(s)))

RECURSIVE Concat(_)
Concat(ss) == IF ss = <<>> THEN <<>> ELSE Head(ss) \o Concat(Tail(ss))

(* --------------------------- the environment --------------------------- *)
\* A 9-byte DFU functional descriptor as it sits in intf.extra_descriptors:
\* bLength, bDescriptorType, bmAttributes, wDetachTimeOut, wTransferSize,
\* bcdDFUVersion (0x0110), the 16-bit fields little-endian.
Desc(attr, xfer) == <<9, 33, attr, 255, 0, xfer % 256, xfer \div 256, 16, 1>>

Intf(cls, sub, proto, num, extra) ==
  [bInterfaceClass |-> cls, bInterfaceSubClass |-> sub, bInterfaceProtocol |-> proto,
   bInterfaceNumber |-> num, extra_descriptors |-> extra]

\* The devices that can be attached, by bus address.  1: an application in
\* run-time mode, DFU interface after a HID interface, will-detach set.
\* 2: the same product re-enumerated in DFU mode, can-download only.
\* 3: a DFU-mode device of another product whose descriptor has
\* wTransferSize 0, can-upload and will-detach set.  4: an interface of the
\* DFU class without a functional descriptor.  5: not a DFU device.
Universe ==
  <<[idVendor |-> 1, idProduct |-> 1,
     cfgs |-> << <<Intf(3, 0, 0, 0, <<>>),
                   Intf(DFU_CLASS, DFU_SUBCLASS, _DFU_PROTOCOL_RT, 1, Desc(11, 2))>> >>],
    [idVendor |-> 1, idProduct |-> 1,
     cfgs |-> << <<Intf(DFU_CLASS, DFU_SUBCLASS, _DFU_PROTOCOL_DFU, 0, Desc(1, 2))>> >>],
    [idVendor |-> 1, idProduct |-> 2,
     cfgs |-> << <<Intf(DFU_CLASS, DFU_SUBCLASS, _DFU_PROTOCOL_DFU, 0, Desc(14, 0))>> >>],
    [idVendor |-> 2, idProduct |-> 1,
     cfgs |-> << <<Intf(DFU_CLASS, DFU_SUBCLASS, _DFU_PROTOCOL_DFU, 0, <<9, 4, 0>>)>> >>],
    [idVendor |-> 1, idProduct |-> 3,
     cfgs |-> << <<Intf(3, 0, 0, 0, <<>>)>> >>]>>

DevIds == 1..Len(Universe)

\* The bus at one enumeration: attached devices in host enumeration order.
Buses ==
  UNION {{b \in [1..n -> DevIds] : \A i, j \in 1..n : i # j => b[i] # b[j]} : n \in 0..MaxBus}

\* The -d argument: <vid> or <vid>:<pid>, either part possibly empty.
DeviceArgs == {<<None, None>>, <<1, None>>, <<1, 2>>}

\* GETSTATUS responses (bStatus, bwPollTimeout, bState) a device can send.
StatusCodes == {_DFU_STATUS_OK, _DFU_STATUS_ERR_WRITE}
PollTimeouts == {0, 100}
States == _DFU_STATE_APP_IDLE.._DFU_STATE_DFU_ERROR
Statuses == [bStatus : StatusCodes, bwPollTimeout : PollTimeouts, bState : States]
NoStatus == [bStatus |-> _DFU_STATUS_OK, bwPollTimeout |-> 0, bState |-> _DFU_STATE_APP_IDLE]

\* The firmware file the user names: n bytes, the i-th byte is i.
Image(n) == [i \in 1..n |-> i]
\* os.urandom(n)
RandomBytes == {0, 255}
\* The bytes a device returns to UPLOAD request t: len bytes tagged with t.
Response(t, len) == [i \in 1..len |-> 10 * t + i]

(* ------------------------- pure functions ------------------------------ *)
NoDescriptor == [bmAttributes |-> -1, wDetachTimeOut |-> -1, wTransferSize |-> -1, bcdDFUVersion |-> -1]

\* `for cfg in dev: for intf in cfg:` visits the interfaces in this order
Interfaces(dev) == Concat(dev.cfgs)

\* mutant: the type tag is not tested
IsNineBytes(d) == Len(d) = _DFU_DESCRIPTOR_LEN

IsFunctionalDescriptor(d) == Len(d) = _DFU_DESCRIPTOR_LEN /\ d[2] = _DFU_DESC_FUNCTIONAL

\* mutant: the 16-bit fields are read high byte first
DfuDescriptorBigEndian(d) ==
  [bmAttributes |-> d[3],
   wDetachTimeOut |-> d[4] * 256 + d[5],
   wTransferSize |-> d[6] * 256 + d[7],
   bcdDFUVersion |-> d[8] * 256 + d[9]]

DfuDescriptor(d) ==
  [bmAttributes |-> d[3],
   wDetachTimeOut |-> d[5] * 256 + d[4],
   wTransferSize |-> d[7] * 256 + d[6],
   bcdDFUVersion |-> d[9] * 256 + d[8]]

get_dfu_descriptor(dev) ==
  LET ok == SelectSeq(Interfaces(dev), LAMBDA i : IsFunctionalDescriptor(i.extra_descriptors))
  IN IF ok = <<>> THEN NoDescriptor ELSE DfuDescriptor(ok[1].extra_descriptors)

IsDfuInterface(intf) ==
  intf.bInterfaceClass = DFU_CLASS /\ intf.bInterfaceSubClass = DFU_SUBCLASS

FilterDFU(device, v, p) ==
  /\ v = None \/ v = device.idVendor
  /\ p = None \/ p = device.idProduct
  /\ \E i \in 1..Len(Interfaces(device)) : IsDfuInterface(Interfaces(device)[i])

\* the ids of the attached devices the filter accepts, in enumeration order
_get_dfu_devices(bus, v, p) == SelectSeq(bus, LAMBDA d : FilterDFU(Universe[d], v, p))

\* mutant: take the first match when several devices match
SelectFirstDevice(devices) == IF devices = <<>> THEN None ELSE devices[1]

\* An ambiguous or empty match selects no device.
SelectDevice(devices) == IF Len(devices) = 1 THEN devices[1] ELSE None

\* lines 588-595: in every configuration the first interface of the DFU
\* class sets `interface`, and dfu_mode when its protocol is 2; `break`
\* leaves the inner loop only, so a later configuration overwrites `interface`
RECURSIVE ScanConfigurations(_, _)
ScanConfigurations(cfgs, acc) ==
  IF cfgs = <<>> THEN acc
  ELSE LET m == SelectSeq(Head(cfgs), IsDfuInterface)
           nxt == IF m = <<>> THEN acc
                  ELSE [interface |-> m[1].bInterfaceNumber,
                        dfu_mode |-> IF m[1].bInterfaceProtocol = _DFU_PROTOCOL_DFU
                                     THEN _DFU_PROTOCOL_DFU ELSE acc.dfu_mode]
       IN ScanConfigurations(Tail(cfgs), nxt)

EffectiveTransferSize(arg, desc) == IF arg <= 0 THEN desc.wTransferSize ELSE arg

EffectiveInterface(arg, found) == IF arg >= 0 THEN arg ELSE found

\* lines 630-646: a later test overrides an earlier one
Command(a) ==
  IF a.version THEN CMD_VERSION
  ELSE IF a.detach THEN CMD_DETACH
  ELSE IF a.upload_file THEN CMD_UPLOAD
  ELSE IF a.random_bin_file_size # 0 THEN CMD_DOWNLOAD_RANDOM_BIN
  ELSE IF a.download_file THEN CMD_DOWNLOAD
  ELSE IF a.list THEN CMD_LIST
  ELSE CMD_NONE

(* ------------------------------- state --------------------------------- *)
VARIABLES
  pc,            \* position in main and its callees
  ret,           \* main's return value, -1 while it has not returned
  exc,           \* the exception that escaped main, "none" otherwise
  args,          \* the parsed command line
  command, vid, pid,
  dfu_device, dfu_mode, interface, transfer_size,   \* main's locals (a device is its bus address)
  error,
  status,        \* main's `status` while it is read again (lines 694-703); the
                 \* other functions test a response in the step that receives it
  download_file, \* name of the file download() reads
  files,         \* the file system: name -> [exists, content]
  data,          \* _dfu_download: the image; _dfu_upload: the bytes received
  transaction, bytes_done,   \* transaction; bytes_downloaded / bytes_uploaded
  chunk,         \* payload of the DOWNLOAD in progress; response of the UPLOAD in progress
  last,          \* dfu_download was called with data=None (the zero-length request)
  total,         \* progressbar.total
  h,             \* history
  gdd_dev,       \* get_dfu_descriptor, or the interface scan of get_dfu_device,
                 \* run on its own: the device dev
  gdd_desc       \* and the value get_dfu_descriptor returned

vars == <<pc, ret, exc, args, command, vid, pid, dfu_device, dfu_mode, interface,
          transfer_size, error, status, download_file, files, data, transaction,
          bytes_done, chunk, last, total, h, gdd_dev, gdd_desc>>

engine == <<dfu_device, dfu_mode, interface, transfer_size>>
xfer == <<data, transaction, bytes_done, chunk, last, total>>
input == <<args, command, vid, pid>>
parse == <<gdd_dev, gdd_desc>>

USER_FILE == "fw.bin"
TMP_FILE == "_tmp_random.bin"
OUT_FILE == "out.bin"
FileNames == {USER_FILE, TMP_FILE, OUT_FILE}
Absent == [exists |-> FALSE, content |-> <<>>]
File(c) == [exists |-> TRUE, content |-> c]

\* Command lines: at most one of -V -l -e -U, with or without -D, and -G 0 or
\* no -G (the default size, which is not 0).
Options == [version : BOOLEAN, list : BOOLEAN, detach : BOOLEAN, download_file : BOOLEAN,
            upload_file : BOOLEAN, random_bin_file_size : {0, RANDOM_BIN_FILE_SIZE_DEFAULT}]
Count(b) == IF b THEN 1 ELSE 0
Flags == {f \in Options : Count(f.version) + Count(f.list) + Count(f.detach)
                            + Count(f.upload_file) <= 1}
TransferSizeArgs == {0, 1}
InterfaceArgs == {-1}
UploadSizeArgs == {0, 4}

NoArgs == [version |-> FALSE, list |-> FALSE, detach |-> FALSE, download_file |-> FALSE,
           upload_file |-> FALSE, random_bin_file_size |-> 0, transfer_size |-> 0,
           interface |-> -1, upload_size |-> 0, final_detach |-> FALSE]

H0 == [claimed |-> FALSE, lastReq |-> "NONE", lastErr |-> FALSE, prevErr |-> FALSE,
       dirty |-> FALSE, xferDirty |-> FALSE, usbErr |-> "", pollErr |-> FALSE,
       afterErr |-> <<>>, done |-> FALSE, msClrFail |-> FALSE, dnloads |-> <<>>, uploads |-> <<>>, nDetach |-> 0,
       nDiscover |-> 0, nMatch |-> 0, match1 |-> None, ambiguous |-> FALSE,
       used |-> {}, usedAfter |-> FALSE,
       msApp |-> FALSE, reset |-> FALSE, slept |-> 0,
       preApp |-> FALSE, afterPreApp |-> {}, stale3 |-> FALSE, nAbort |-> 0,
       polled4 |-> FALSE, stale4 |-> FALSE, abortFail |-> FALSE,
       detachFail |-> FALSE, lastPoll |-> "none", unpolled |-> FALSE,
       afterUsb |-> {}, rejected |-> FALSE, msSleptClaimed |-> FALSE,
       pollTimeout |-> -1, pollSlept |-> -1, claimedDev |-> None, unclaimed |-> FALSE]

\* no device: one without configurations
NoDevice == [idVendor |-> None, idProduct |-> None, cfgs |-> <<>>]

Init ==
  /\ pc = "main"
  /\ ret = -1
  /\ exc = "none"
  /\ args = NoArgs
  /\ command = CMD_NONE
  /\ vid = None
  /\ pid = None
  /\ dfu_device = None
  /\ dfu_mode = 0
  /\ interface = 0
  /\ transfer_size = 0
  /\ error = 0
  /\ status = NoStatus
  /\ download_file = ""
  /\ files = [f \in FileNames |-> Absent]
  /\ data = <<>>
  /\ transaction = 0
  /\ bytes_done = 0
  /\ chunk = <<>>
  /\ last = FALSE
  /\ total = 0
  /\ h = H0
  /\ gdd_dev = NoDevice
  /\ gdd_desc = NoDescriptor

(* ------------------------ history bookkeeping -------------------------- *)
\* a DFU class request `kind` is handed to ctrl_transfer for dfu_device
Req(hh, kind) ==
  [hh EXCEPT !.lastReq = kind,
             !.lastErr = FALSE,
             !.prevErr = hh.lastErr,
             !.used = @ \cup {dfu_device},
             !.usedAfter = @ \/ hh.ambiguous,
             !.dirty = IF kind = "CLRSTATUS" THEN FALSE ELSE @,
             !.xferDirty = @ \/ (kind \in {"DOWNLOAD", "UPLOAD"} /\ hh.dirty),
             !.afterErr = IF hh.pollErr THEN Append(@, kind) ELSE @,
             !.nDetach = IF kind = "DETACH" THEN @ + 1 ELSE @,
             !.nAbort = IF kind = "ABORT" THEN @ + 1 ELSE @,
             !.afterPreApp = IF hh.preApp THEN @ \cup {kind} ELSE @,
             !.afterUsb = IF hh.usbErr # "" THEN @ \cup {kind} ELSE @,
             !.unpolled = @ \/ (kind \in {"DOWNLOAD", "UPLOAD"}
                                  /\ hh.lastPoll \notin {"none", "settled"}),
             !.lastPoll = IF kind \in {"DOWNLOAD", "UPLOAD"} THEN "unpolled" ELSE @,
             !.unclaimed = @ \/ hh.claimedDev # dfu_device]

\* the GETSTATUS just issued was answered with st; inLoop: it is a poll of
\* the chunk loop of a download or upload
Answer(hh, st, inLoop) ==
  [hh EXCEPT !.lastErr = (st.bState = _DFU_STATE_DFU_ERROR),
             !.dirty = @ \/ (inLoop /\ st.bStatus # _DFU_STATUS_OK)]

\* lines 258-259, 291-292: sleep(status.bwPollTimeout/1000), in milliseconds
PollSleep(st) == st.bwPollTimeout

\* the poll of a chunk loop was answered with st; idle is the idle state of
\* the transfer direction (DNLOAD_IDLE or UPLOAD_IDLE)
Polled(hh, st, idle) ==
  LET wait == /\ st.bState \notin {idle, _DFU_STATE_DFU_IDLE}
              /\ st.bStatus = _DFU_STATUS_OK /\ st.bState # _DFU_STATE_DFU_ERROR
  IN [hh EXCEPT !.lastPoll = IF st.bState \in {idle, _DFU_STATE_DFU_IDLE}
                             THEN "settled" ELSE "other",
                !.pollTimeout = IF wait THEN st.bwPollTimeout ELSE -1,
                !.pollSlept = IF wait THEN PollSleep(st) ELSE -1]

\* a request was refused: the transport raised, or the device answered with a
\* state or status the code treats as failure
Rejected(hh) == [hh EXCEPT !.rejected = TRUE]

\* the pre-flight GETSTATUS issued at `from` was answered with st
Observed(hh, from, st) ==
  LET app == st.bState \in {_DFU_STATE_APP_IDLE, _DFU_STATE_APP_DETACH}
      stale == st.bState \in {_DFU_STATE_DFU_DOWNLOAD_IDLE, _DFU_STATE_DFU_UPLOAD_IDLE}
  IN [hh EXCEPT !.preApp = @ \/ (from = "pre1" /\ app),
                !.stale3 = @ \/ (from = "pre3" /\ stale),
                !.polled4 = @ \/ from = "pre4",
                !.stale4 = @ \/ (from = "pre4" /\ stale),
                !.rejected = @ \/ (from = "pre1" /\ app) \/ (from = "pre4" /\ stale)]

Sleep(hh, t) == [hh EXCEPT !.slept = t]

\* mutant: the interface is not claimed
ClaimSkipped(hh) == hh

\* usb.util.claim_interface / usb.util.dispose_resources
Claimed(hh) == [hh EXCEPT !.claimed = TRUE, !.claimedDev = dfu_device,
                          !.used = @ \cup {dfu_device},
                          !.usedAfter = @ \/ hh.ambiguous]
Released(hh) == [hh EXCEPT !.claimed = FALSE, !.claimedDev = None]

(* ------------------------------- main ---------------------------------- *)
\* lines 603-667: parse -d, choose the command, version / no command / list
Main ==
  /\ pc = "main"
  /\ \E f \in Flags, d \in DeviceArgs \cup {<<-1, -1>>}, ts \in TransferSizeArgs,
        ia \in InterfaceArgs, us \in UploadSizeArgs, n \in -1..MaxLen :
       LET a == [version |-> f.version, list |-> f.list, detach |-> f.detach,
                 download_file |-> f.download_file, upload_file |-> f.upload_file,
                 random_bin_file_size |-> f.random_bin_file_size, transfer_size |-> ts,
                 interface |-> ia, upload_size |-> us, final_detach |-> FALSE]
           cmd == Command(a)
       IN \* inputs the chosen command never reads are left at their defaults;
          \* -R, which main reads once at line 767, is drawn there
          /\ (cmd \in {CMD_VERSION, CMD_NONE, CMD_LIST} \/ d = <<-1, -1>>)
               => (ts = 0 /\ ia = -1)
          /\ (cmd # CMD_UPLOAD \/ d = <<-1, -1>>) => us = 0
          /\ (~a.download_file \/ d = <<-1, -1>>
                \/ cmd \notin {CMD_DOWNLOAD, CMD_DOWNLOAD_RANDOM_BIN}) => n = -1
          \* a file named by -D that -G overrides: absent, or MaxLen bytes long
          /\ cmd = CMD_DOWNLOAD_RANDOM_BIN => n \in {-1, MaxLen}
          /\ cmd = CMD_DETACH => ts = 0
          /\ args' = a
          /\ files' = [files EXCEPT ![USER_FILE] = IF n < 0 THEN Absent ELSE File(Image(n))]
          /\ IF d = <<-1, -1>>
             THEN \* more than one ':' in -d
                  /\ ret' = 1 /\ pc' = "done"
                  /\ UNCHANGED <<command, vid, pid>>
             ELSE /\ command' = cmd
                  /\ vid' = d[1]
                  /\ pid' = d[2]
                  /\ IF cmd \in {CMD_VERSION, CMD_NONE}
                     THEN ret' = 0 /\ pc' = "done"
                     ELSE /\ ret' = ret
                          /\ pc' = IF cmd = CMD_LIST THEN "list_devices" ELSE "get_dfu_device"
  /\ UNCHANGED <<parse, exc, engine, error, status, download_file, xfer, h>>

\* lines 386-393, 665-667
ListDevices ==
  /\ pc = "list_devices"
  /\ \E bus \in Buses :
       h' = [h EXCEPT !.nDiscover = @ + 1,
                      !.nMatch = Len(_get_dfu_devices(bus, vid, pid))]
  /\ ret' = error
  /\ pc' = "done"
  /\ UNCHANGED <<parse, exc, input, engine, error, status, download_file, files, xfer>>

\* lines 518-601: the values get_dfu_device returns for the bus it finds.
\* cfg: the device has an active configuration / set_configuration succeeds /
\* set_configuration raises USBError.  The result is "none" (no or several
\* devices), "ValueError", or "ok" with the tuple main unpacks.
get_dfu_device(bus, cfg) ==
  LET devices == _get_dfu_devices(bus, vid, pid)
      dev == SelectDevice(devices)
      desc == get_dfu_descriptor(Universe[dev])
      scan == ScanConfigurations(Universe[dev].cfgs, [interface |-> 0, dfu_mode |-> 0])
  IN IF dev = None
     THEN [result |-> "none", dev |-> None, dfu_mode |-> 0, interface |-> 0,
           transfer_size |-> args.transfer_size, nMatch |-> Len(devices),
           match1 |-> IF devices = <<>> THEN None ELSE devices[1]]
     ELSE [result |-> IF cfg = "fails" \/ desc = NoDescriptor THEN "ValueError" ELSE "ok",
           dev |-> dev, dfu_mode |-> scan.dfu_mode,
           interface |-> EffectiveInterface(args.interface, scan.interface),
           transfer_size |-> EffectiveTransferSize(args.transfer_size, desc),
           nMatch |-> Len(devices), match1 |-> devices[1]]

Discovered(hh, r, cfg) ==
  [hh EXCEPT !.nDiscover = @ + 1, !.nMatch = r.nMatch, !.match1 = r.match1,
             !.ambiguous = @ \/ r.nMatch > 1,
             !.used = IF r.dev # None /\ cfg # "active" THEN @ \cup {r.dev} ELSE @]

\* lines 669-689: first discovery and the dispatch on its result
GetDfuDevice ==
  /\ pc = "get_dfu_device"
  /\ \E bus \in Buses, cfg \in {"active", "set", "fails"} :
       LET r == get_dfu_device(bus, cfg)
       IN /\ h' = Discovered(h, r, cfg)
          /\ CASE r.result = "none" ->
                    /\ dfu_device' = None /\ dfu_mode' = r.dfu_mode
                    /\ interface' = r.interface /\ transfer_size' = r.transfer_size
                    /\ ret' = 1 /\ pc' = "done"
               [] r.result = "ValueError" ->
                    /\ UNCHANGED <<engine, ret>>
                    /\ pc' = "except"
               [] r.result = "ok" ->
                    /\ dfu_device' = r.dev /\ dfu_mode' = r.dfu_mode
                    /\ interface' = r.interface /\ transfer_size' = r.transfer_size
                    /\ ret' = ret
                    /\ pc' = IF command = CMD_DETACH THEN "detach_claim"
                             ELSE IF r.dfu_mode # _DFU_PROTOCOL_DFU THEN "rt_claim"
                             ELSE "claim"
  /\ UNCHANGED <<parse, exc, input, error, status, download_file, files, xfer>>

\* dfu_claim_interface, then set_interface_altsetting; either may raise USBError
ClaimInterface(from, to) ==
  /\ pc = from
  /\ \E r \in {"ok", "claim raises", "altsetting raises"} :
       /\ h' = IF r = "ok" THEN Claimed(h)
               ELSE IF r = "claim raises" THEN Rejected(h) ELSE Rejected(Claimed(h))
       /\ pc' = IF r = "ok" THEN to ELSE "except"
  /\ UNCHANGED <<parse, ret, exc, input, engine, error, status, download_file, files, xfer>>

\* lines 501-516: `finally: return 0` makes every outcome return 0
DetchReturn(sent) == 0

\* detch(): DETACH, and the detach delay when the request did not raise
Detch(hh, sent) ==
  IF sent THEN Sleep(Req(hh, "DETACH"), _DETACH_DELAY_S)
  ELSE [Rejected(Req(hh, "DETACH")) EXCEPT !.detachFail = TRUE]

\* lines 682-687: the detach command
DetachClaim == ClaimInterface("detach_claim", "detach")

DetachCommand ==
  /\ pc = "detach"
  /\ \E sent \in BOOLEAN :
       /\ h' = Detch(h, sent)
       /\ error' = DetchReturn(sent)
  /\ pc' = "detach_release"
  /\ UNCHANGED <<parse, ret, exc, input, engine, status, download_file, files, xfer>>

DetachRelease ==
  /\ pc = "detach_release"
  /\ h' = Released(h)
  /\ ret' = error
  /\ pc' = "done"
  /\ UNCHANGED <<parse, exc, input, engine, error, status, download_file, files, xfer>>

(* --------------------------- dfu_get_state ----------------------------- *)
Bad(st) == st.bStatus # _DFU_STATUS_OK \/ st.bState = _DFU_STATE_DFU_ERROR
\* mutant: APP_DETACH is not taken for a run-time state
AppIdleOnly(st) == st.bState = _DFU_STATE_APP_IDLE

AppMode(st) == st.bState = _DFU_STATE_APP_IDLE \/ st.bState = _DFU_STATE_APP_DETACH
\* mutant: only an interrupted download counts as a stale transfer
StaleDownloadOnly(st) == st.bState = _DFU_STATE_DFU_DOWNLOAD_IDLE

Stale(st) == st.bState = _DFU_STATE_DFU_DOWNLOAD_IDLE \/ st.bState = _DFU_STATE_DFU_UPLOAD_IDLE
\* mutant: any answer ends the poll loop of dfu_download
AnswerSettles(st) == TRUE

DownloadSettled(st) == st.bState = _DFU_STATE_DFU_DOWNLOAD_IDLE \/ st.bState = _DFU_STATE_DFU_IDLE
UploadSettled(st) == st.bState = _DFU_STATE_DFU_UPLOAD_IDLE \/ st.bState = _DFU_STATE_DFU_IDLE

(* ----------------------- main: the mode switch ------------------------- *)
\* lines 689-692
RtClaim == ClaimInterface("rt_claim", "rt_get_state")

\* lines 694-703: GETSTATUS, the poll-timeout sleep, and the two tests
RtGetState ==
  /\ pc = "rt_get_state"
  /\ \/ /\ h' = Rejected(Req(h, "GETSTATUS"))
        /\ pc' = "except"
        /\ UNCHANGED status
     \/ \E st \in Statuses :
          /\ status' = IF Bad(st) THEN st ELSE NoStatus
          /\ h' = [Answer(Req(h, "GETSTATUS"), st, FALSE) EXCEPT !.msApp = AppMode(st)]
          /\ pc' = IF Bad(st) THEN "rt_clear_status"
                   ELSE IF AppMode(st) THEN "rt_detach" ELSE "claim"
  /\ UNCHANGED <<parse, ret, exc, input, engine, error, download_file, files, xfer>>

\* lines 698-703.  ctrl_transfer returns the number of bytes written or
\* raises, so the `< 0` test never succeeds.
RtClearStatus ==
  /\ pc = "rt_clear_status"
  /\ \/ /\ h' = [Rejected(Req(h, "CLRSTATUS")) EXCEPT !.msClrFail = TRUE]
        /\ pc' = "except"
     \/ /\ h' = Req(h, "CLRSTATUS")
        /\ pc' = IF AppMode(status) THEN "rt_detach" ELSE "claim"
  /\ status' = NoStatus
  /\ UNCHANGED <<parse, ret, exc, input, engine, error, download_file, files, xfer>>

\* lines 705-707
RtDetach ==
  /\ pc = "rt_detach"
  /\ \E sent \in BOOLEAN :
       /\ h' = [Detch(h, sent) EXCEPT !.msSleptClaimed = sent /\ h.claimed]
       /\ error' = DetchReturn(sent)
  /\ IF error' # 0
     THEN ret' = 1 /\ pc' = "done"
     ELSE ret' = ret /\ pc' = "rt_release"
  /\ UNCHANGED <<parse, exc, input, engine, status, download_file, files, xfer>>

\* line 709
RtRelease ==
  /\ pc = "rt_release"
  /\ h' = Released(h)
  /\ pc' = "rt_get_dfu_device"
  /\ UNCHANGED <<parse, ret, exc, input, engine, error, status, download_file, files, xfer>>

\* mutant: the protocol of the re-discovered device is not tested
StillRunTimeUnchecked(mode) == FALSE

\* the device found after the detach must be in DFU mode
StillRunTime(mode) == mode # _DFU_PROTOCOL_DFU

\* lines 710-725: second discovery
RtGetDfuDevice ==
  /\ pc = "rt_get_dfu_device"
  /\ \E bus \in Buses, cfg \in {"active", "set", "fails"} :
       LET r == get_dfu_device(bus, cfg)
       IN /\ h' = Discovered(h, r, cfg)
          /\ CASE r.result = "none" ->
                    /\ dfu_device' = None /\ dfu_mode' = r.dfu_mode
                    /\ interface' = r.interface /\ transfer_size' = r.transfer_size
                    /\ ret' = 1 /\ pc' = "done"
               [] r.result = "ValueError" ->
                    /\ UNCHANGED <<engine, ret>>
                    /\ pc' = "except"
               [] r.result = "ok" ->
                    /\ dfu_device' = r.dev /\ dfu_mode' = r.dfu_mode
                    /\ interface' = r.interface /\ transfer_size' = r.transfer_size
                    /\ IF StillRunTime(r.dfu_mode)
                       THEN ret' = 1 /\ pc' = "done"
                       ELSE ret' = ret /\ pc' = "claim"
  /\ UNCHANGED <<parse, exc, input, error, status, download_file, files, xfer>>

\* lines 727-729
Claim ==
  ClaimInterface("claim", IF command = CMD_UPLOAD THEN "upload" ELSE "download_file")

\* lines 731-744: the file to download.  The file system is taken to accept
\* the write of _tmp_random.bin, so the os.access test after it succeeds.
\* Of a random file longer than MaxRandomLen the first MaxRandomLen bytes
\* are kept.
DownloadFile ==
  /\ pc = "download_file"
  /\ IF command = CMD_DOWNLOAD
     THEN /\ download_file' = USER_FILE
          /\ files' = files
     ELSE \E c \in [1..Min(args.random_bin_file_size, MaxRandomLen) -> RandomBytes] :
               /\ download_file' = TMP_FILE
               /\ files' = [files EXCEPT ![TMP_FILE] = File(c)]
  /\ pc' = "download"
  /\ UNCHANGED <<parse, ret, exc, input, engine, error, status, xfer, h>>

(* ------------------- download() / upload(): pre-flight ----------------- *)
\* lines 401-411
Download ==
  /\ pc = "download"
  /\ IF files[download_file].exists
     THEN pc' = "pre1" /\ error' = error
     ELSE pc' = "final" /\ error' = 1
  /\ UNCHANGED <<parse, ret, exc, input, engine, status, download_file, files, xfer, h>>

\* lines 456-461: open(filename, "wb") truncates the file
Upload ==
  /\ pc = "upload"
  /\ pc' = "pre1"
  /\ files' = [files EXCEPT ![OUT_FILE] = File(<<>>)]
  /\ UNCHANGED <<parse, ret, exc, input, engine, error, status, download_file, xfer, h>>

\* dfu_get_state inside download()/upload(): a USBError reaches main's handler;
\* to[st] is where the code goes on the response st
GetState(from, to) ==
  /\ pc = from
  /\ \/ /\ h' = [Rejected(Req(h, "GETSTATUS")) EXCEPT !.abortFail = @ \/ from = "pre4"]
        /\ pc' = "except"
        /\ error' = error
     \/ \E st \in Statuses :
          /\ h' = Observed(Answer(Req(h, "GETSTATUS"), st, FALSE), from, st)
          /\ pc' = to[st]
          /\ error' = IF to[st] = "final" THEN 1 ELSE error
  /\ UNCHANGED <<parse, ret, exc, input, engine, status, download_file, files, xfer>>

Request(from, kind, to) ==
  /\ pc = from
  /\ \/ /\ h' = [Rejected(Req(h, kind)) EXCEPT !.abortFail = @ \/ kind = "ABORT"]
        /\ pc' = "except"
     \/ /\ h' = Req(h, kind)
        /\ pc' = to
  /\ UNCHANGED <<parse, ret, exc, input, engine, error, status, download_file, files, xfer>>

\* lines 414-417, 464-467: `return 1` in run-time mode
PreRunTime == GetState("pre1", [st \in Statuses |-> IF AppMode(st) THEN "final" ELSE "pre2"])
\* lines 419-420, 469-470
PreStatus == GetState("pre2", [st \in Statuses |-> IF Bad(st) THEN "pre_clear" ELSE "pre3"])
\* lines 421-425, 471-475
PreClearStatus == Request("pre_clear", "CLRSTATUS", "pre3")
\* lines 427-428, 477-478
PreStale == GetState("pre3", [st \in Statuses |-> IF Stale(st) THEN "pre_abort" ELSE "transfer"])
\* lines 429-434, 479-484
PreAbort == Request("pre_abort", "ABORT", "pre4")
\* lines 436-441, 486-491: `return 1` when the abort did not leave the state
PreAborted == GetState("pre4", [st \in Statuses |-> IF Stale(st) THEN "final" ELSE "transfer"])

(* ----------------------------- _dfu_download --------------------------- *)
\* mutant: every chunk is empty
ChunkSizeZero(xfersize, remaining) == 0

\* line 335
ChunkSize(xfersize, remaining) == Min(xfersize, remaining)

\* mutant: the transaction number is not advanced
NextTransactionStuck(t) == t

\* line 346
NextTransaction(t) == t + 1

\* _dfu_download / _dfu_upload catch USBError (lines 352-353, 381-382), log a
\* warning and return; download()/upload() then return 0
USBErrorInLoop == "caught"

\* line 443 and lines 328-331
DfuDownloadStart ==
  /\ pc = "transfer"
  /\ command # CMD_UPLOAD
  /\ data' = files[download_file].content
  /\ transaction' = 0
  /\ bytes_done' = 0
  /\ total' = Len(data')
  /\ pc' = "dl_loop"
  /\ UNCHANGED <<parse, ret, exc, input, engine, error, status, download_file, files, chunk, last, h>>

\* mutant: the request that raised is submitted again
RetryAfterUSBError == pc

\* where a USBError raised inside the try block of the chunk loop goes
AfterUSBError == IF USBErrorInLoop = "caught" THEN "final" ELSE "except"

\* lines 334-344 and 350, with the DOWNLOAD control transfer of lines 240-247
DfuDownloadRequest ==
  /\ pc = "dl_loop"
  /\ transaction < MaxTransaction
  /\ LET more == bytes_done < Len(data)
         chunk_size == ChunkSize(transfer_size, Len(data) - bytes_done)
         payload == IF more THEN Slice(data, bytes_done, bytes_done + chunk_size) ELSE <<>>
         sent == [Req(h, "DOWNLOAD") EXCEPT
                    !.dnloads = Append(@, [wValue |-> transaction, data |-> payload])]
     IN /\ chunk' = payload
        /\ last' = ~more
        /\ \/ /\ h' = [sent EXCEPT !.usbErr = "request"]
              /\ pc' = AfterUSBError
           \/ /\ h' = sent
              /\ pc' = "dl_poll"
  /\ UNCHANGED <<parse, ret, exc, input, engine, error, status, download_file, files, data,
                 transaction, bytes_done, total>>

\* lines 249-259, then lines 345-347 or line 351.  ProgressBar.update divides
\* by total, so an empty image ends in ZeroDivisionError, which main does
\* not catch.
DfuDownloadPoll ==
  /\ pc = "dl_poll"
  /\ \/ /\ h' = [Req(h, "GETSTATUS") EXCEPT !.usbErr = "poll"]
        /\ pc' = AfterUSBError
        /\ UNCHANGED <<transaction, bytes_done, exc>>
     \/ \E st \in Statuses :
          /\ IF DownloadSettled(st)
             THEN /\ h' = [Polled(Answer(Req(h, "GETSTATUS"), st, TRUE),
                                   st, _DFU_STATE_DFU_DOWNLOAD_IDLE) EXCEPT !.done = last]
                  /\ IF last
                     THEN /\ IF total = 0
                             THEN pc' = "done" /\ exc' = "ZeroDivisionError"
                             ELSE pc' = "final" /\ exc' = exc
                          /\ UNCHANGED <<transaction, bytes_done>>
                     ELSE /\ transaction' = NextTransaction(transaction)
                          /\ bytes_done' = bytes_done
                                           + ChunkSize(transfer_size, Len(data) - bytes_done)
                          /\ pc' = "dl_loop"
                          /\ exc' = exc
             ELSE IF Bad(st)
             THEN /\ h' = [Rejected(Polled(Answer(Req(h, "GETSTATUS"), st, TRUE),
                                            st, _DFU_STATE_DFU_DOWNLOAD_IDLE)) EXCEPT
                             !.pollErr = @ \/ st.bState = _DFU_STATE_DFU_ERROR]
                  /\ pc' = "dl_clear"
                  /\ UNCHANGED <<transaction, bytes_done, exc>>
             ELSE /\ h' = Polled(Answer(Req(h, "GETSTATUS"), st, TRUE),
                                  st, _DFU_STATE_DFU_DOWNLOAD_IDLE)
                  /\ pc' = "dl_poll"
                  /\ UNCHANGED <<transaction, bytes_done, exc>>
  /\ UNCHANGED <<parse, ret, input, engine, error, status, download_file, files, data, chunk, last,
                 total>>

\* lines 256-257: CLRSTATUS, then RuntimeError
DfuDownloadClear ==
  /\ pc = "dl_clear"
  /\ \/ /\ h' = [Req(h, "CLRSTATUS") EXCEPT !.usbErr = "clear"]
        /\ pc' = AfterUSBError
     \/ /\ h' = Req(h, "CLRSTATUS")
        /\ pc' = "except"
  /\ UNCHANGED <<parse, ret, exc, input, engine, error, status, download_file, files, xfer>>

(* ------------------------------ _dfu_upload ---------------------------- *)
\* lines 358-362
DfuUploadStart ==
  /\ pc = "transfer"
  /\ command = CMD_UPLOAD
  /\ data' = <<>>
  /\ transaction' = 0
  /\ bytes_done' = 0
  /\ total' = args.upload_size
  /\ pc' = "ul_loop"
  /\ UNCHANGED <<parse, ret, exc, input, engine, error, status, download_file, files, chunk, last, h>>

\* lines 494-495
Written(fs, d) == IF Len(d) > 0 THEN [fs EXCEPT ![OUT_FILE] = File(d)] ELSE fs

\* line 376
ShortResponse(rdata, transferSize) == Len(rdata) < transferSize

\* line 366 with the UPLOAD control transfer of lines 273-280.  The device
\* has at most MaxLen bytes to send.
DfuUploadRequest ==
  /\ pc = "ul_loop"
  /\ transaction < MaxTransaction
  /\ \/ /\ h' = [Req(h, "UPLOAD") EXCEPT !.usbErr = "request"]
        /\ pc' = AfterUSBError
        /\ files' = IF USBErrorInLoop = "caught" THEN Written(files, data) ELSE files
        /\ chunk' = chunk
     \/ \E n \in 0..Min(transfer_size, MaxLen - bytes_done) :
          /\ chunk' = Response(transaction, n)
          /\ h' = [Req(h, "UPLOAD") EXCEPT
                     !.uploads = Append(@, [wValue |-> transaction, wLength |-> transfer_size,
                                            data |-> chunk'])]
          /\ pc' = "ul_poll"
          /\ files' = files
  /\ UNCHANGED <<parse, ret, exc, input, engine, error, status, download_file, data,
                 transaction, bytes_done, last, total>>

\* lines 282-294, then lines 367-380 and 494-495.  ProgressBar.update divides
\* by total: by --upload-size inside the loop, by bytes_uploaded after it.
DfuUploadPoll ==
  /\ pc = "ul_poll"
  /\ \/ /\ h' = [Req(h, "GETSTATUS") EXCEPT !.usbErr = "poll"]
        /\ pc' = AfterUSBError
        /\ files' = IF USBErrorInLoop = "caught" THEN Written(files, data) ELSE files
        /\ UNCHANGED <<data, transaction, bytes_done, total, exc>>
     \/ \E st \in Statuses :
          /\ IF UploadSettled(st)
             THEN /\ h' = [Polled(Answer(Req(h, "GETSTATUS"), st, TRUE),
                                   st, _DFU_STATE_DFU_UPLOAD_IDLE) EXCEPT
                             !.done = total # 0 /\ ShortResponse(chunk, transfer_size)]
                  /\ IF total = 0
                     THEN /\ pc' = "done" /\ exc' = "ZeroDivisionError"
                          /\ UNCHANGED <<data, transaction, bytes_done, total, files>>
                     ELSE /\ data' = data \o chunk
                          /\ bytes_done' = bytes_done + Len(chunk)
                          /\ transaction' = NextTransaction(transaction)
                          /\ IF ShortResponse(chunk, transfer_size)
                             THEN /\ total' = bytes_done'
                                  /\ IF bytes_done' = 0
                                     THEN pc' = "done" /\ exc' = "ZeroDivisionError"
                                                       /\ files' = files
                                     ELSE pc' = "final" /\ exc' = exc
                                                        /\ files' = Written(files, data')
                             ELSE /\ pc' = "ul_loop"
                                  /\ UNCHANGED <<total, exc, files>>
             ELSE IF Bad(st)
             THEN /\ h' = [Rejected(Polled(Answer(Req(h, "GETSTATUS"), st, TRUE),
                                            st, _DFU_STATE_DFU_UPLOAD_IDLE)) EXCEPT
                             !.pollErr = @ \/ st.bState = _DFU_STATE_DFU_ERROR]
                  /\ pc' = "ul_clear"
                  /\ UNCHANGED <<data, transaction, bytes_done, total, exc, files>>
             ELSE /\ h' = Polled(Answer(Req(h, "GETSTATUS"), st, TRUE),
                                  st, _DFU_STATE_DFU_UPLOAD_IDLE)
                  /\ pc' = "ul_poll"
                  /\ UNCHANGED <<data, transaction, bytes_done, total, exc, files>>
  /\ UNCHANGED <<parse, ret, input, engine, error, status, download_file, chunk, last>>

\* lines 289-290
DfuUploadClear ==
  /\ pc = "ul_clear"
  /\ \/ /\ h' = [Req(h, "CLRSTATUS") EXCEPT !.usbErr = "clear"]
        /\ pc' = AfterUSBError
        /\ files' = IF USBErrorInLoop = "caught" THEN Written(files, data) ELSE files
     \/ /\ h' = Req(h, "CLRSTATUS")
        /\ pc' = "except"
        /\ files' = files
  /\ UNCHANGED <<parse, ret, exc, input, engine, error, status, download_file, xfer>>

(* ------------------------ main: the end of a run ----------------------- *)
\* bitWillDetach is a local of get_dfu_device (lines 550-553); main, which
\* reads it at line 776, has no such name
MainBinds_bitWillDetach == FALSE

BitWillDetach(dev) ==
  BitAnd(get_dfu_descriptor(Universe[dev]).bmAttributes, _DFU_WILL_DETACH) # 0

\* lines 767-778
FinalDetach ==
  /\ pc = "final"
  /\ error = 0
  /\ args' = [args EXCEPT !.final_detach = TRUE]
  /\ \E sent \in BOOLEAN :
       LET d == Sleep(Detch(h, sent), _DETACH_DELAY_S)
       IN IF ~MainBinds_bitWillDetach
          THEN /\ h' = d
               /\ exc' = "NameError"
               /\ pc' = "done"
          ELSE /\ exc' = exc
               /\ IF BitWillDetach(dfu_device)
                  THEN h' = d /\ pc' = "release"
                  ELSE /\ h' = [d EXCEPT !.reset = TRUE,
                                           !.unclaimed = @ \/ d.claimedDev # dfu_device]
                       /\ pc' \in {"release", "except"}
  /\ UNCHANGED <<parse, ret, command, vid, pid, engine, error, status, download_file, files, xfer>>

\* lines 767 (-R not given, or error # 0) and 780-781
Release ==
  /\ pc \in {"final", "release"}
  /\ \E fd \in BOOLEAN :
       /\ pc = "final" /\ fd => error # 0
       /\ pc = "release" => fd = args.final_detach
       /\ args' = [args EXCEPT !.final_detach = fd]
  /\ h' = Released(h)
  /\ ret' = error
  /\ pc' = "done"
  /\ UNCHANGED <<parse, exc, command, vid, pid, engine, error, status, download_file, files, xfer>>

\* lines 782-802
Except ==
  /\ pc = "except"
  /\ h' = IF dfu_device # None THEN Released(h) ELSE h
  /\ ret' = 1
  /\ pc' = "done"
  /\ UNCHANGED <<parse, exc, input, engine, error, status, download_file, files, xfer>>

Next ==
  \/ Main \/ ListDevices \/ GetDfuDevice
  \/ DetachClaim \/ DetachCommand \/ DetachRelease
  \/ RtClaim \/ RtGetState \/ RtClearStatus \/ RtDetach \/ RtRelease \/ RtGetDfuDevice
  \/ Claim \/ DownloadFile \/ Download \/ Upload
  \/ PreRunTime \/ PreStatus \/ PreClearStatus \/ PreStale \/ PreAbort \/ PreAborted
  \/ DfuDownloadStart \/ DfuDownloadRequest \/ DfuDownloadPoll \/ DfuDownloadClear
  \/ DfuUploadStart \/ DfuUploadRequest \/ DfuUploadPoll \/ DfuUploadClear
  \/ FinalDetach \/ Release \/ Except

Spec == Init /\ [][Next]_vars

(* ------------------- get_dfu_descriptor on its own --------------------- *)
\* longest extra-descriptor byte string tried
MaxExtraLen == 10

\* Byte strings of the length of a functional descriptor: bLength right or
\* wrong, the type tag right or wrong, two values for every other byte, no
\* two of the field bytes alike.
NineBytes ==
  {<<b0, b1, a, d0, d1, t0, t1, v0, v1>> :
     b0 \in {9, 7}, b1 \in {_DFU_DESC_FUNCTIONAL, 36}, a \in {0, 11}, d0 \in {1, 255},
     d1 \in {0, 2}, t0 \in {0, 3}, t1 \in {4, 16}, v0 \in {5, 16}, v1 \in {1, 6}}

\* One byte string of every other length, with the tag of a functional
\* descriptor where it has a second byte.
OtherLengths ==
  {[i \in 1..n |-> IF i = 1 THEN n ELSE IF i = 2 THEN _DFU_DESC_FUNCTIONAL ELSE i] :
     n \in (0..MaxExtraLen) \ {_DFU_DESCRIPTOR_LEN}}

Extras == NineBytes \cup OtherLengths

\* what the other interface of a two-interface device carries: nothing, a
\* functional descriptor, a 9-byte descriptor of another type
OtherExtras == {<<>>, Desc(14, 258), <<9, 36, 1, 2, 3, 4, 5, 6, 7>>}

DfuIntf(num, extra) == Intf(DFU_CLASS, DFU_SUBCLASS, _DFU_PROTOCOL_DFU, num, extra)

\* Devices with one interface, with two interfaces in one configuration, and
\* with two configurations of one interface each.
ParseDevices ==
  LET Dev(c) == [idVendor |-> 1, idProduct |-> 1, cfgs |-> c]
  IN {Dev(<< <<DfuIntf(0, e)>> >>) : e \in Extras}
     \cup {Dev(<< <<DfuIntf(0, e), DfuIntf(1, o)>> >>) : e \in Extras, o \in OtherExtras}
     \cup {Dev(<< <<DfuIntf(0, o), DfuIntf(1, e)>> >>) : e \in Extras, o \in OtherExtras}
     \cup {Dev(<< <<DfuIntf(0, e)>>, <<DfuIntf(0, o)>> >>) : e \in Extras, o \in OtherExtras}
     \cup {Dev(<< <<DfuIntf(0, o)>>, <<DfuIntf(0, e)>> >>) : e \in Extras, o \in OtherExtras}

ParseInit ==
  /\ pc = "get_dfu_descriptor"
  /\ gdd_dev \in ParseDevices
  /\ gdd_desc = NoDescriptor
  /\ ret = -1 /\ exc = "none" /\ args = NoArgs /\ command = CMD_NONE
  /\ vid = None /\ pid = None
  /\ dfu_device = None /\ dfu_mode = 0 /\ interface = 0 /\ transfer_size = 0
  /\ error = 0 /\ status = NoStatus /\ download_file = ""
  /\ files = [f \in FileNames |-> Absent]
  /\ data = <<>> /\ transaction = 0 /\ bytes_done = 0 /\ chunk = <<>>
  /\ last = FALSE /\ total = 0 /\ h = H0

\* lines 130-144: one call of get_dfu_descriptor
GetDfuDescriptor ==
  /\ pc = "get_dfu_descriptor"
  /\ gdd_desc' = get_dfu_descriptor(gdd_dev)
  /\ pc' = "returned"
  /\ UNCHANGED <<gdd_dev, ret, exc, input, engine, error, status, download_file, files,
                 xfer, h>>

ParseNext == GetDfuDescriptor

ParseSpec == ParseInit /\ [][ParseNext]_vars

(* ------------- get_dfu_device: the interface scan on its own ----------- *)
\* most interfaces in one configuration
MaxIntf == 3

\* the -i values tried: the default, and two overrides
InterfaceOverrides == {-1, 0, 7}

\* An interface of one of four kinds: HID; DFU class with the run-time
\* protocol; DFU class with the DFU protocol; class 0xFE with another subclass.
ScanIntf(kind, num) ==
  CASE kind = "hid" -> Intf(3, 0, 0, num, <<>>)
    [] kind = "rt" -> Intf(DFU_CLASS, DFU_SUBCLASS, _DFU_PROTOCOL_RT, num, Desc(11, 2))
    [] kind = "dfu" -> Intf(DFU_CLASS, DFU_SUBCLASS, _DFU_PROTOCOL_DFU, num, Desc(11, 2))
    [] kind = "fe2" -> Intf(DFU_CLASS, 2, 0, num, <<>>)

Kinds == {"hid", "rt", "dfu", "fe2"}

\* a configuration: the i-th interface has number base + i
ScanConfig(ks, base) == [i \in 1..Len(ks) |-> ScanIntf(ks[i], base + i)]

KindSeqs(n) == UNION {[1..m -> Kinds] : m \in 1..n}

\* Devices the filter of _get_dfu_devices accepts: one configuration of up to
\* MaxIntf interfaces, or two configurations of up to two interfaces each.
ScanDevices ==
  LET Dev(c) == [idVendor |-> 1, idProduct |-> 1, cfgs |-> c]
      all == {Dev(<<ScanConfig(ks, 0)>>) : ks \in KindSeqs(MaxIntf)}
               \cup {Dev(<<ScanConfig(k1, 0), ScanConfig(k2, 10)>>) :
                       k1 \in KindSeqs(2), k2 \in KindSeqs(2)}
  IN {d \in all : FilterDFU(d, None, None)}

ScanInit ==
  /\ pc = "scan"
  /\ gdd_dev \in ScanDevices
  /\ \E ia \in InterfaceOverrides : args = [NoArgs EXCEPT !.interface = ia]
  /\ gdd_desc = NoDescriptor
  /\ ret = -1 /\ exc = "none" /\ command = CMD_NONE
  /\ vid = None /\ pid = None
  /\ dfu_device = None /\ dfu_mode = 0 /\ interface = 0 /\ transfer_size = 0
  /\ error = 0 /\ status = NoStatus /\ download_file = ""
  /\ files = [f \in FileNames |-> Absent]
  /\ data = <<>> /\ transaction = 0 /\ bytes_done = 0 /\ chunk = <<>>
  /\ last = FALSE /\ total = 0 /\ h = H0

\* lines 521-523 and 588-601: interface and dfu_mode as get_dfu_device
\* returns them for dev
ScanInterfaces ==
  /\ pc = "scan"
  /\ LET scan == ScanConfigurations(gdd_dev.cfgs, [interface |-> 0, dfu_mode |-> 0])
     IN /\ interface' = EffectiveInterface(args.interface, scan.interface)
        /\ dfu_mode' = scan.dfu_mode
  /\ pc' = "scanned"
  /\ UNCHANGED <<parse, ret, exc, input, dfu_device, transfer_size, error, status,
                 download_file, files, xfer, h>>

ScanNext == ScanInterfaces

ScanSpec == ScanInit /\ [][ScanNext]_vars

(* ----------------------- progress of a download ------------------------ *)
\* the poll loop of dfu_download (lines 249-259) is left: the device answered
\* with DNLOAD_IDLE, DFU_IDLE or an error, or the control transfer raised
DownloadPollAnswered == DfuDownloadPoll /\ pc' # "dl_poll"

\* _dfu_download on its own.  The states in which download() enters it for
\* `dfu.py -D fw.bin -G 0` with or without `-t 1`: device 2 or 3 alone on the
\* bus, found in DFU mode and claimed, every pre-flight poll answered dfuIDLE.
DownloadInit ==
  /\ pc = "transfer"
  /\ command = CMD_DOWNLOAD
  /\ download_file = USER_FILE
  /\ \E n \in 0..MaxLen :
       files = [f \in FileNames |-> IF f = USER_FILE THEN File(Image(n)) ELSE Absent]
  /\ \E ts \in TransferSizeArgs, dev \in {2, 3} :
       /\ args = [NoArgs EXCEPT !.download_file = TRUE, !.transfer_size = ts]
       /\ dfu_device = dev
       /\ transfer_size = EffectiveTransferSize(ts, get_dfu_descriptor(Universe[dev]))
       /\ h = [H0 EXCEPT !.claimed = TRUE, !.lastReq = "GETSTATUS", !.claimedDev = dev,
                         !.nDiscover = 1, !.nMatch = 1, !.match1 = dev, !.used = {dev}]
  /\ dfu_mode = _DFU_PROTOCOL_DFU /\ interface = 0
  /\ vid = None /\ pid = None
  /\ ret = -1 /\ exc = "none" /\ error = 0 /\ status = NoStatus
  /\ data = <<>> /\ transaction = 0 /\ bytes_done = 0 /\ chunk = <<>>
  /\ last = FALSE /\ total = 0
  /\ gdd_dev = NoDevice /\ gdd_desc = NoDescriptor

DownloadNext ==
  \/ DfuDownloadStart \/ DfuDownloadRequest \/ DfuDownloadPoll \/ DfuDownloadClear

\* Every control transfer returns, so _dfu_download takes its next step, and
\* after a DOWNLOAD request the device does not report a busy state for ever.
LiveSpec ==
  DownloadInit /\ [][DownloadNext]_vars
    /\ WF_vars(DownloadNext) /\ WF_vars(DownloadPollAnswered)

(* ------------------------------ properties ----------------------------- *)
Downloading == command \in {CMD_DOWNLOAD, CMD_DOWNLOAD_RANDOM_BIN}
Uploading == command = CMD_UPLOAD
Finished == pc = "done"
\* the exit status of the process: sys.exit(main()), or 1 when an exception
\* escapes main
ExitCode == IF exc # "none" THEN 1 ELSE ret

\* ceil(n / c) for c > 0
CeilDiv(n, c) == (n + c - 1) \div c

\* C1: for an image of N bytes and a chunk size C > 0, a chunk loop in which
\* every request succeeded and settled has issued exactly ceil(N/C) DOWNLOAD
\* requests with data, of C bytes each except a last one of 1..C bytes, with
\* wValue 0, 1, .., ceil(N/C)-1 in that order, then one zero-length DOWNLOAD
\* with wValue ceil(N/C), and none after it.
C1_DownloadSequence ==
  (Downloading /\ h.done /\ transfer_size > 0) =>
    LET N == Len(data)
        C == transfer_size
        K == CeilDiv(N, C)
    IN /\ Len(h.dnloads) = K + 1
       /\ \A i \in 1..K :
            /\ h.dnloads[i].wValue = i - 1
            /\ Len(h.dnloads[i].data) = IF i < K THEN C ELSE N - (K - 1) * C
            /\ Len(h.dnloads[i].data) \in 1..C
       /\ h.dnloads[K + 1] = [wValue |-> K, data |-> <<>>]

\* a 3-byte image sent in chunks of 2: sizes 2, 1, 0 at transactions 0, 1, 2
C1_Witness ==
  /\ Downloading /\ h.done /\ Finished
  /\ Len(data) = 3 /\ transfer_size = 2
  /\ Len(h.dnloads) = 3

\* C2: a USBError raised by a DOWNLOAD/UPLOAD request of the chunk loop, or by
\* the status poll that follows it, makes main return 1, never 0.
C2_TransportErrorFails ==
  (Finished /\ h.usbErr \in {"request", "poll"}) => ExitCode = 1

\* C3: no run ends with the interface still claimed.
C3_ReleasedAtExit == Finished => ~h.claimed

\* C4: the request that follows a GETSTATUS response reporting state ERROR is
\* CLRSTATUS.
C4_ClearAfterError == h.prevErr => h.lastReq = "CLRSTATUS"

\* C5: after a poll of a download or upload returned bStatus # OK, no DOWNLOAD
\* or UPLOAD request is issued unless a CLRSTATUS was issued in between.
C5_NoTransferAfterBadStatus == ~h.xferDirty

\* C6: after a poll of the download chunk loop reported state ERROR the
\* engine issues exactly one CLRSTATUS and no DOWNLOAD, and main returns 1.
C6_ErrorPollAborts ==
  (Finished /\ Downloading /\ h.pollErr) =>
    /\ ExitCode = 1
    /\ Len(SelectSeq(h.afterErr, LAMBDA k : k = "CLRSTATUS")) = 1
    /\ \A i \in 1..Len(h.afterErr) : h.afterErr[i] # "DOWNLOAD"

\* _dfu_upload has returned: normally, or from its `except` clause
UploadReturned ==
  /\ Uploading
  /\ \/ h.done /\ exc # "ZeroDivisionError"
     \/ h.usbErr # ""

\* C7: _dfu_upload issues UPLOAD requests with wValue 0, 1, 2, .. for
\* transferSize bytes each, stops after the first response shorter than
\* transferSize and not before, and returns the responses concatenated in
\* request order, each exactly once.
C7_UploadUntilShort ==
  UploadReturned =>
    LET n == Len(h.uploads)
    IN /\ n >= 1
       /\ \A i \in 1..n : h.uploads[i].wValue = i - 1 /\ h.uploads[i].wLength = transfer_size
       /\ \A i \in 1..(n - 1) : ~ShortResponse(h.uploads[i].data, transfer_size)
       /\ ShortResponse(h.uploads[n].data, transfer_size)
       /\ data = Concat([i \in 1..n |-> h.uploads[i].data])

\* C8: a discovery that matches several devices uses none of them (no
\* configuration set, no interface claimed, no request) and the run returns
\* 1; an interface is only ever claimed on the single match of the latest
\* discovery.
C8_AmbiguousUsesNone ==
  /\ h.ambiguous =>
       /\ Finished /\ ret = 1
       /\ dfu_device = None
       /\ ~h.claimed /\ ~h.usedAfter
       /\ h.nDiscover = 1 => (h.used = {} /\ h.lastReq = "NONE")
  /\ h.claimed => (h.nMatch = 1 /\ dfu_device = h.match1)

\* vendor filter alone, two devices of that vendor attached
C8_Witness ==
  /\ h.ambiguous /\ h.nMatch = 2 /\ h.nDiscover = 1
  /\ vid = 1 /\ pid = None
  /\ Finished /\ ret = 1

\* C9: with -R after a successful transfer: DETACH, the detach delay, a USB
\* reset exactly when the will-detach bit is 0, release, and exit code 0.
C9_FinalReset ==
  (Finished /\ args.final_detach /\ h.done) =>
    /\ ExitCode = 0
    /\ ~h.claimed
    /\ h.lastReq = "DETACH"
    /\ h.reset <=> ~BitWillDetach(dfu_device)

\* The mode switch: discovery is re-run only after exactly one DETACH; when
\* GETSTATUS reported APP_IDLE or APP_DETACH (and `always`) the run has sent
\* a DETACH and run discovery twice; a device still in run-time mode at the
\* second discovery ends the run with 1, no second DETACH and no DOWNLOAD or
\* UPLOAD.
C10_ModeSwitch(always) ==
  /\ pc = "rt_get_dfu_device" => (h.nDetach = 1 /\ h.nDiscover = 1)
  /\ (Finished /\ h.msApp /\ always) => (h.nDiscover = 2 /\ h.nDetach >= 1)
  /\ (Finished /\ h.nDiscover = 2 /\ dfu_mode # _DFU_PROTOCOL_DFU) =>
       /\ ret = 1
       /\ h.nDetach = 1
       /\ h.dnloads = <<>> /\ h.uploads = <<>>

\* C10 as stated: whenever the mode switch's GETSTATUS reports APP_IDLE or
\* APP_DETACH, exactly one DETACH is sent and discovery is run a second
\* time; a device still in run-time mode then ends the run with 1, without a
\* second DETACH and without any DOWNLOAD or UPLOAD.
C10_AsStated == C10_ModeSwitch(TRUE)

\* C10 amended: the same, unless the CLRSTATUS that a response with
\* bStatus # OK calls for raises a transport error, which ends the run with
\* 1 before any DETACH
C10_ModeSwitchAmended ==
  /\ C10_ModeSwitch(~h.msClrFail)
  /\ (Finished /\ h.msClrFail) => (ret = 1 /\ h.nDetach = 0 /\ h.nDiscover = 1)

\* the device re-enumerated, still with its run-time interface
C10_Witness ==
  /\ Finished /\ h.msApp /\ h.nDiscover = 2
  /\ dfu_device # None /\ dfu_mode # _DFU_PROTOCOL_DFU
  /\ ret = 1

TransferRequests == {"DOWNLOAD", "UPLOAD"}

\* C11: once the first GETSTATUS of download() or upload() has reported
\* APP_IDLE or APP_DETACH the operation has returned 1, no CLRSTATUS, ABORT,
\* DOWNLOAD or UPLOAD is issued afterwards, and the run ends with exit code 1.
C11_RunTimeFails ==
  h.preApp =>
    /\ error = 1
    /\ h.afterPreApp \cap ({"CLRSTATUS", "ABORT"} \cup TransferRequests) = {}
    /\ Finished => ExitCode = 1

\* the run has ended after download()/upload() found the device in a
\* run-time state
C11_Witness == h.preApp /\ Finished /\ ret = 1 /\ h.lastReq = "GETSTATUS" /\ ~h.claimed

\* The stale-transfer check of the pre-flight: exactly one ABORT is issued
\* when, and only when, the third GETSTATUS reported DNLOAD_IDLE or
\* UPLOAD_IDLE; the state is then polled again (when `always`); a poll that
\* still reports one of the two states makes the operation return 1 with no
\* DOWNLOAD or UPLOAD; any other answer leads to the chunk loop, which starts
\* at transaction 0.
C12_Abort(always) ==
  /\ (h.stale3 /\ pc # "pre_abort") => h.nAbort = 1
  /\ ~h.stale3 => h.nAbort = 0
  /\ (h.stale3 /\ pc \notin {"pre_abort", "pre4"} /\ always) => h.polled4
  /\ h.stale4 =>
       /\ error = 1
       /\ h.dnloads = <<>> /\ h.uploads = <<>> /\ h.lastPoll = "none"
       /\ Finished => ExitCode = 1
  /\ (h.polled4 /\ ~h.stale4 /\ h.lastPoll = "none" /\ h.lastReq = "GETSTATUS") =>
       /\ pc \in {"transfer", "dl_loop", "ul_loop"}
       /\ pc # "transfer" => transaction = 0
  /\ (h.stale3 /\ h.dnloads # <<>>) => h.dnloads[1].wValue = 0
  /\ (h.stale3 /\ h.uploads # <<>>) => h.uploads[1].wValue = 0

\* C12 as stated: after DNLOAD_IDLE or UPLOAD_IDLE at the pre-flight check the
\* engine issues exactly one ABORT and polls again; still stale means failure
\* without DOWNLOAD or UPLOAD, otherwise the transfer starts at transaction 0.
C12_AsStated == C12_Abort(TRUE)

\* C12 amended: the same, unless the ABORT or the GETSTATUS after it raises a
\* transport error; the run then ends with exit code 1 and no DOWNLOAD or
\* UPLOAD is issued.
C12_AbortAmended ==
  /\ C12_Abort(~h.abortFail)
  /\ h.abortFail =>
       /\ h.stale3 /\ h.nAbort = 1
       /\ h.dnloads = <<>> /\ h.uploads = <<>> /\ h.lastPoll = "none"
       /\ Finished => ExitCode = 1

\* a stale transfer was aborted, the abort took, and the download has issued
\* its first request
C12_Witness ==
  /\ h.stale3 /\ h.nAbort = 1 /\ h.polled4 /\ ~h.stale4
  /\ Downloading /\ Len(h.dnloads) >= 1

\* C13: the detach command ends with exit code 1 whenever its DETACH request
\* failed, and with exit code 0 only when the DETACH was sent successfully.
C13_DetachExitCode ==
  (Finished /\ command = CMD_DETACH) =>
    /\ h.detachFail => ExitCode = 1
    /\ ExitCode = 0 => (h.nDetach = 1 /\ ~h.detachFail)

\* -l alone on the command line: no -D, -U, -e, -V and no -G, with a
\* well-formed -d if any (a malformed one ends main before any command is
\* chosen)
ListOnly ==
  /\ args.list /\ ~args.download_file /\ ~args.upload_file /\ ~args.detach /\ ~args.version
  /\ args.random_bin_file_size = RANDOM_BIN_FILE_SIZE_DEFAULT
  /\ ~(Finished /\ command = CMD_NONE)

\* C14: the list command only enumerates: no configuration is set, no
\* interface claimed, no control transfer, detach or reset issued, and it
\* returns exit code 0.
C14_ListOnlyEnumerates ==
  ListOnly =>
    /\ h.used = {} /\ ~h.claimed
    /\ h.lastReq = "NONE" /\ h.nDetach = 0 /\ ~h.reset
    /\ Finished => ExitCode = 0

\* C15: a DOWNLOAD or UPLOAD request that is not the first of its operation is
\* issued only when the most recent poll of the previous request reported the
\* idle state of the transfer (DNLOAD_IDLE, UPLOAD_IDLE) or DFU_IDLE: never
\* without a poll, and never after a sync, busy or manifest answer.
C15_PolledBetweenRequests ==
  /\ ~h.unpolled
  /\ (pc \in {"dl_loop", "ul_loop"} /\ h.lastPoll # "none") => h.lastPoll = "settled"

\* a second DOWNLOAD has gone out, after the poll of the first one reported
\* an idle state
C15_Witness ==
  /\ Len(h.dnloads) >= 2 /\ h.lastReq = "DOWNLOAD" /\ ~h.unpolled
  /\ h.lastPoll = "unpolled"

\* C16: after a control transfer of the download or upload chunk loop raised
\* a transport error, no DOWNLOAD, UPLOAD or GETSTATUS is issued any more.
C16_NoRequestAfterUSBError ==
  h.afterUsb \cap (TransferRequests \cup {"GETSTATUS"}) = {}

\* the poll after the first chunk of a longer image raised; the run has
\* ended with the remaining chunks unsent
C16_Witness ==
  /\ Downloading /\ Finished /\ h.usbErr = "poll"
  /\ Len(h.dnloads) = 1 /\ Len(data) > Len(h.dnloads[1].data)

\* the extra-descriptor byte strings of dev in configuration / interface order
ExtrasInOrder(dev) ==
  LET is == Concat(dev.cfgs) IN [i \in 1..Len(is) |-> is[i].extra_descriptors]

\* exactly 9 bytes, the second of them 0x21
Qualifies(e) == Len(e) = 9 /\ e[2] = 33

\* the fields of a qualifying byte string e, the 16-bit ones low byte first
\* (e[1] in TLA+ is byte 0)
Decoded(e) ==
  [bmAttributes |-> e[3],
   wDetachTimeOut |-> e[4] + 256 * e[5],
   wTransferSize |-> e[6] + 256 * e[7],
   bcdDFUVersion |-> e[8] + 256 * e[9]]

Returned == pc = "returned"

\* C17: get_dfu_descriptor returns the decoded fields of the first interface,
\* in configuration / interface order, whose extra bytes are exactly 9 long
\* with byte 1 = 0x21, and None when no interface qualifies.
C17_DescriptorParse ==
  Returned =>
    LET q == SelectSeq(ExtrasInOrder(gdd_dev), Qualifies)
    IN IF q = <<>> THEN gdd_desc = NoDescriptor
       ELSE gdd_desc # NoDescriptor /\ gdd_desc = Decoded(q[1])

\* a device whose first interface carries a 9-byte descriptor of another type
\* and whose second interface carries the functional descriptor
C17_Witness ==
  /\ Returned /\ gdd_desc # NoDescriptor
  /\ Len(ExtrasInOrder(gdd_dev)) = 2
  /\ ~Qualifies(ExtrasInOrder(gdd_dev)[1])
  /\ Len(ExtrasInOrder(gdd_dev)[1]) = 9
  /\ gdd_desc.wTransferSize = 4096 + 3

\* [length 9, type 0x21, bmAttributes, wDetachTimeOut, wTransferSize,
\* bcdDFUVersion], the 16-bit fields low byte first
Encode(desc) ==
  <<9, 33, desc.bmAttributes,
    desc.wDetachTimeOut % 256, desc.wDetachTimeOut \div 256,
    desc.wTransferSize % 256, desc.wTransferSize \div 256,
    desc.bcdDFUVersion % 256, desc.bcdDFUVersion \div 256>>

\* the byte string get_dfu_descriptor accepted: the first in order with 9
\* bytes and the type tag 0x21
Accepted == SelectSeq(ExtrasInOrder(gdd_dev), Qualifies)[1]

\* re-encoding the returned fields gives back the accepted bytes; about
\* byte strings whose first byte is 9 when lengthChecked
C18_RoundTrip(lengthChecked) ==
  (Returned /\ gdd_desc # NoDescriptor /\ (lengthChecked => Accepted[1] = 9))
    => Encode(gdd_desc) = Accepted

\* C18 as stated: for every 9-byte sequence get_dfu_descriptor accepts,
\* re-encoding the parsed fields reproduces the original 9 bytes.
C18_AsStated == C18_RoundTrip(FALSE)

\* C18 amended: for every accepted 9-byte sequence whose first byte (bLength)
\* is 9, re-encoding the parsed fields reproduces the original 9 bytes; an
\* accepted sequence with another first byte is re-encoded with first byte 9
\* and the other eight bytes unchanged.
C18_RoundTripAmended ==
  /\ C18_RoundTrip(TRUE)
  /\ (Returned /\ gdd_desc # NoDescriptor) =>
       /\ Len(Encode(gdd_desc)) = 9
       /\ \A i \in 2..9 : Encode(gdd_desc)[i] = Accepted[i]

\* an accepted descriptor with bLength 9 and a high byte in every 16-bit field
C18_Witness ==
  /\ Returned /\ gdd_desc # NoDescriptor
  /\ Accepted[1] = 9
  /\ gdd_desc.wDetachTimeOut >= 256
  /\ gdd_desc.wTransferSize >= 256
  /\ gdd_desc.bcdDFUVersion >= 256
  /\ gdd_desc.wDetachTimeOut % 256 # 0

\* the can-upload bit of the functional descriptor of the device in use
CanUpload(dev) ==
  BitAnd(get_dfu_descriptor(Universe[dev]).bmAttributes, _DFU_CAN_UPLOAD) # 0

\* an upload run on a DFU-mode device whose descriptor lacks the can-upload bit
UploadWithoutCanUpload ==
  /\ Uploading /\ dfu_device # None /\ dfu_mode = _DFU_PROTOCOL_DFU
  /\ ~CanUpload(dfu_device)

\* C19: the can-upload bit never gates an upload: on a device whose descriptor
\* lacks the bit the upload still runs the pre-flight checks and issues its
\* UPLOAD requests, and it fails only if the device or the transport rejected
\* a request.
C19_UploadNotGated ==
  UploadWithoutCanUpload =>
    /\ (h.uploads # <<>> => h.lastPoll # "none" /\ h.uploads[1].wValue = 0)
    /\ (Finished /\ ExitCode # 0) => (h.rejected \/ h.usbErr # "")

\* C20: in the mode switch the interface is released before the wait of the
\* detach delay begins, and discovery is re-run only after DETACH was sent,
\* the interface released and the detach delay waited.
C20_ModeSwitchOrder ==
  /\ ~h.msSleptClaimed
  /\ pc = "rt_get_dfu_device" =>
       /\ h.nDetach = 1 /\ h.lastReq = "DETACH" /\ ~h.detachFail
       /\ ~h.claimed
       /\ h.slept = _DETACH_DELAY_S

\* _dfu_download has returned to download(), or has been left by an exception
DownloadReturned == pc \notin {"transfer", "dl_loop", "dl_poll", "dl_clear"}

\* C21: a download with chunk size > 0 terminates when every control
\* transfer returns and the device eventually settles or reports an error
\* after each DOWNLOAD; while the device reports another state with status OK
\* the engine stays in the poll loop, has waited the reported bwPollTimeout,
\* and has issued no request other than GETSTATUS.
C21_DownloadTerminates ==
  /\ []((Downloading /\ h.pollTimeout # -1 /\ h.usbErr = "") =>
          /\ pc = "dl_poll"
          /\ h.lastReq = "GETSTATUS"
          /\ h.pollSlept = h.pollTimeout)
  /\ (pc = "dl_loop" /\ transaction = 0 /\ transfer_size > 0) ~> DownloadReturned

\* the device reports a busy state with poll timeout 100 after the
\* zero-length DOWNLOAD that follows two data chunks
C21_Witness ==
  /\ pc = "dl_poll" /\ last /\ transfer_size > 0
  /\ Len(h.dnloads) = 3
  /\ h.pollTimeout = 100 /\ h.pollSlept = 100

\* C22: every DFU class request and every reset main issues to a device is
\* issued while that device's interface is claimed by this run: after
\* dfu_claim_interface and before dfu_release_interface on the same handle.
C22_RequestsWhileClaimed ==
  /\ ~h.unclaimed
  /\ h.claimedDev # None => h.claimedDev = dfu_device

\* a run that switched a run-time device to DFU mode, claimed the device found
\* again and downloaded to it: requests under both claims
C22_Witness ==
  /\ Finished /\ Downloading /\ h.done
  /\ h.nDetach = 1 /\ h.nDiscover = 2
  /\ Len(h.dnloads) >= 2
  /\ ~h.claimed

\* the payloads of the DOWNLOAD requests issued so far, in transaction order
Payloads == Concat([i \in 1..Len(h.dnloads) |-> h.dnloads[i].data])

\* -D is given and none of -U, -e, -V
DownloadFileGiven ==
  args.download_file /\ ~args.upload_file /\ ~args.detach /\ ~args.version

\* C23: when a download file is given (and no upload, detach or version
\* option), whatever the other options and their defaults, the file read is
\* that file, and the payloads of the DOWNLOAD requests of a completed
\* download, concatenated in transaction order, are its contents.
C23_GivenFileIsSent ==
  (DownloadFileGiven /\ files[USER_FILE].exists /\ h.dnloads # <<>>) =>
    /\ download_file = USER_FILE
    /\ Len(Payloads) <= Len(files[USER_FILE].content)
    /\ Payloads = SubSeq(files[USER_FILE].content, 1, Len(Payloads))
    /\ \A i \in 1..Len(h.dnloads) : h.dnloads[i].wValue = i - 1
    /\ h.done => Payloads = files[USER_FILE].content

\* class 0xFE, subclass 1
IsFE01(intf) == intf.bInterfaceClass = 254 /\ intf.bInterfaceSubClass = 1

\* the interfaces of dev of class 0xFE, subclass 1
DfuInterfacesOf(dev) == SelectSeq(Concat(dev.cfgs), IsFE01)

\* C24: for a device that has an interface of class 0xFE and subclass 1,
\* get_dfu_device returns the number of such an interface, or the override
\* when one >= 0 is given, and reports DFU mode exactly when the protocol of
\* that interface is 2, wherever the interface stands in its configuration.
C24_InterfaceSelected ==
  pc = "scanned" =>
    \E i \in 1..Len(DfuInterfacesOf(gdd_dev)) :
      LET intf == DfuInterfacesOf(gdd_dev)[i]
      IN /\ interface = IF args.interface >= 0 THEN args.interface
                        ELSE intf.bInterfaceNumber
         /\ (dfu_mode = 2) <=> (intf.bInterfaceProtocol = 2)

\* C25: the effective chunk size is > 0 whenever a download or upload chunk
\* loop starts, so every data-carrying DOWNLOAD request carries at least one
\* byte and the number of bytes left to download decreases with every
\* iteration of the loop.
C25_ChunkSizePositive ==
  /\ pc \in {"dl_loop", "ul_loop"} => transfer_size > 0
  /\ \A i \in 1..Len(h.dnloads) :
       (i < Len(h.dnloads) \/ ~last) => Len(h.dnloads[i].data) >= 1
  /\ (pc = "dl_loop" /\ transaction > 0) => bytes_done > 0

====
